---- MODULE Spec2Model ----
(***************************************************************************)
(* Clipboard snapshot-and-classify core of src/native/src/clipboard:       *)
(* read_clipboard_content (the Pasteboard Reader), detect_urls and         *)
(* get_clipboard_change_count (the Change Counter Accessor), together with *)
(* the other applications that write the system pasteboard.                *)
(*                                                                         *)
(* Every message sent to NSPasteboard is a separate request to the         *)
(* pasteboard server, so read_clipboard_content is modelled as the         *)
(* sequence of its requests, one action per probe, and another             *)
(* application may write the pasteboard between any two of them.  What the *)
(* pasteboard answers to a request is an input of the step that sends it.  *)
(*                                                                         *)
(* Encodings.  An Objective-C object reference or a Rust Option is a       *)
(* sequence of length 0 (nil, None) or 1 (the object, Some(x)).  A string  *)
(* is a sequence of one-character strings.  uuid, timestamp and the        *)
(* frontmost-application fields of the item are not modelled: no probe     *)
(* reads them.  changeCount is an i64; it is bounded here by MaxChange,    *)
(* far below 2^63, so it never wraps.                                      *)
(***************************************************************************)
EXTENDS Integers, Sequences, FiniteSets, TLC

VARIABLES
    changeCount,    \* the pasteboard server's change count
    pc,             \* position of the caller inside read_clipboard_content
    types,          \* local `types`: the array of declared types, or nil
    item,           \* local `item`
    result,         \* the Option<NativeClipboardItem> returned (valid at "done")
    obs,            \* history: what each probe of this call obtained
    change_count,   \* local `change_count` (monitor.rs:33)
    read_cc,        \* history: changeCount at the latest pasteboard request
    last_count,     \* history: result of the latest get_clipboard_change_count
    last_handle,    \* history: whether that call found the pasteboard
    prev_count,     \* history: result of the call before the latest
    prev_handle,    \* history: whether that call found the pasteboard
    between,        \* history: the pasteboard was written between the two
    mutated,        \* history: the pasteboard was written since that call
    input_text,     \* argument of detect_urls in the unit tests
    found_urls      \* what detect_urls returned for it

vars == <<changeCount, pc, types, item, result, obs, change_count, read_cc,
          last_count, last_handle, prev_count, prev_handle, between, mutated,
          input_text, found_urls>>

readVars == <<pc, types, item, result, obs, change_count, read_cc>>
countVars == <<last_count, last_handle, prev_count, prev_handle, between, mutated>>
testVars == <<input_text, found_urls>>

(***************************************************************************)
(* Bounds                                                                  *)
(***************************************************************************)
MaxChange == 2       \* writes of the pasteboard by other applications
MaxUrls == 2         \* NSURL objects in one readObjectsForClasses answer
MaxBytes == 1        \* bytes in one NSData answer
MaxPieces == 3       \* pieces of a plain-text pasteboard string
MaxUrlPieces == 5    \* pieces of a text handed to detect_urls directly

(***************************************************************************)
(* Options, nil and strings                                                *)
(***************************************************************************)
None == <<>>
Some(x) == <<x>>
IsSome(o) == Len(o) = 1
Nil == <<>>
Obj(x) == <<x>>

RECURSIVE SeqsUpTo(_, _)
SeqsUpTo(S, n) ==
    IF n = 0 THEN {<<>>}
    ELSE LET shorter == SeqsUpTo(S, n - 1)
         IN  shorter \cup {Append(s, x) : s \in shorter, x \in S}

RECURSIVE Concat(_)
Concat(ss) == IF ss = <<>> THEN <<>> ELSE Head(ss) \o Concat(Tail(ss))

NUL == "0"
IsWhitespace(c) == c \in {" ", "\t"}

(***************************************************************************)
(* ClipboardContentType and its Display                                    *)
(***************************************************************************)
ClipboardContentType ==
    {"Text", "RichText", "Image", "File", "Link", "Color", "Unknown"}

to_string(ct) ==
    CASE ct = "Text" -> "text"
      [] ct = "RichText" -> "rich_text"
      [] ct = "Image" -> "image"
      [] ct = "File" -> "file"
      [] ct = "Link" -> "link"
      [] ct = "Color" -> "color"
      [] ct = "Unknown" -> "unknown"

(***************************************************************************)
(* Strings read from Objective-C: CStr::from_ptr stops at the first NUL    *)
(***************************************************************************)
RECURSIVE c_str(_)
c_str(bytes) ==
    IF bytes = <<>> \/ Head(bytes) = NUL THEN <<>>
    ELSE <<Head(bytes)>> \o c_str(Tail(bytes))

\* data: the answer of stringForType, nil or an NSString.  A NULL UTF8String
\* and bytes that are not UTF-8 return None like nil; an NSString produces
\* neither, so the answers below do not include them.
read_string_for_type(data) ==
    IF data = Nil THEN None ELSE Some(c_str(data[1]))

(***************************************************************************)
(* read_file_urls                                                          *)
(***************************************************************************)
NoUtf8 == "<no UTF8String>"

\* url: the answer of [url path], nil or an NSString
PathOf(url) ==
    IF url = Nil THEN None
    ELSE IF url[1] = NoUtf8 THEN None
    ELSE Some(url[1])

RECURSIVE CollectPaths(_)
CollectPaths(urls) ==
    IF urls = <<>> THEN <<>>
    ELSE LET p == PathOf(Head(urls))
         IN  (IF IsSome(p) THEN <<p[1]>> ELSE <<>>) \o CollectPaths(Tail(urls))

\* urls: the answer of readObjectsForClasses, nil or an NSArray of NSURL
read_file_urls(urls) ==
    IF urls = Nil THEN None
    ELSE IF Len(urls[1]) = 0 THEN None
    ELSE LET paths == CollectPaths(urls[1])
         IN  IF paths = <<>> THEN None ELSE Some(paths)

(***************************************************************************)
(* read_image_data                                                         *)
(***************************************************************************)
\* data: the answer of dataForType, nil or an NSData; its bytes pointer is
\* null only when its length is 0
HasBytes(data) == data # Nil /\ Len(data[1]) > 0

\* variant of read_image_data: TIFF is tried before PNG
read_image_data_tiff_first(png_data, tiff_data) ==
    IF HasBytes(tiff_data) THEN Some([data |-> tiff_data[1], format |-> "tiff"])
    ELSE IF HasBytes(png_data) THEN Some([data |-> png_data[1], format |-> "png"])
    ELSE None

read_image_data(png_data, tiff_data) ==
    IF HasBytes(png_data) THEN Some([data |-> png_data[1], format |-> "png"])
    ELSE IF HasBytes(tiff_data) THEN Some([data |-> tiff_data[1], format |-> "tiff"])
    ELSE None

(***************************************************************************)
(* detect_urls: Regex "https?://[^\s]+", find_iter                         *)
(***************************************************************************)
RECURSIVE trim_start(_)
trim_start(s) ==
    IF s # <<>> /\ IsWhitespace(Head(s)) THEN trim_start(Tail(s)) ELSE s

RECURSIVE trim_end(_)
trim_end(s) ==
    IF s # <<>> /\ IsWhitespace(s[Len(s)])
    THEN trim_end(SubSeq(s, 1, Len(s) - 1)) ELSE s

trim(s) == trim_end(trim_start(s))

Http == <<"h", "t", "t", "p", ":", "/", "/">>
Https == <<"h", "t", "t", "p", "s", ":", "/", "/">>

starts_with(s, i, prefix) ==
    /\ i + Len(prefix) - 1 <= Len(s)
    /\ \A k \in 1..Len(prefix) : s[i + k - 1] = prefix[k]

\* length of "https?://" matched at position i, 0 when it does not match
SchemeAt(s, i) ==
    IF starts_with(s, i, Https) THEN Len(Https)
    ELSE IF starts_with(s, i, Http) THEN Len(Http)
    ELSE 0

\* last position of the run of non-whitespace characters that starts at i
RECURSIVE RunEnd(_, _)
RunEnd(s, i) ==
    IF i < Len(s) /\ ~IsWhitespace(s[i + 1]) THEN RunEnd(s, i + 1) ELSE i

\* the match of the pattern that starts at i: its last position, 0 if none
MatchAt(s, i) ==
    LET n == SchemeAt(s, i)
    IN  IF n > 0 /\ i + n <= Len(s) /\ ~IsWhitespace(s[i + n])
        THEN RunEnd(s, i + n) ELSE 0

\* variant of find_iter: the search resumes one character after the start
\* of each match, so matches overlap
RECURSIVE find_iter_overlapping(_, _)
find_iter_overlapping(s, i) ==
    IF i > Len(s) THEN <<>>
    ELSE LET e == MatchAt(s, i)
         IN  IF e > 0 THEN <<SubSeq(s, i, e)>> \o find_iter_overlapping(s, i + 1)
             ELSE find_iter_overlapping(s, i + 1)

\* find_iter from position i: leftmost match first, the search resumes
\* after the end of each match
RECURSIVE find_iter(_, _)
find_iter(s, i) ==
    IF i > Len(s) THEN <<>>
    ELSE LET e == MatchAt(s, i)
         IN  IF e > 0 THEN <<SubSeq(s, i, e)>> \o find_iter(s, e + 1)
             ELSE find_iter(s, i + 1)

\* Regex::new of the constant pattern always succeeds
url_pattern_ok == TRUE

detect_urls(text) ==
    IF url_pattern_ok THEN find_iter(text, 1)
    ELSE IF starts_with(trim(text), 1, Http) \/ starts_with(trim(text), 1, Https)
         THEN <<trim(text)>>
         ELSE <<>>

(***************************************************************************)
(* What the pasteboard can answer                                          *)
(***************************************************************************)
file_url_type == "public.file-url"
png_type == "public.png"
tiff_type == "public.tiff"
html_type == "public.html"
rtf_type == "public.rtf"
text_type == "public.utf8-plain-text"
other_type == "com.adobe.pdf"     \* a type no probe asks for

RecognizedTypes ==
    {file_url_type, png_type, tiff_type, html_type, rtf_type, text_type}

\* [pasteboard types]: nil, or the array of declared types
TypesAnswers ==
    {Nil} \cup {Obj(S) : S \in SUBSET RecognizedTypes} \cup {Obj({other_type})}

\* [url path] of one NSURL
UrlAnswers == {Nil, Obj(NoUtf8), Obj("/a"), Obj("/b")}

\* readObjectsForClasses:[NSURL]
FileUrlAnswers == {Nil} \cup {Obj(us) : us \in SeqsUpTo(UrlAnswers, MaxUrls)}

\* dataForType:
ByteValues == {0, 255}
DataAnswers == {Nil} \cup {Obj(b) : b \in SeqsUpTo(ByteValues, MaxBytes)}

\* stringForType: for public.html and public.rtf
MarkupAnswers == {Nil, Obj(<<>>), Obj(<<"m">>), Obj(<<"m", NUL, "x">>)}

\* stringForType: for public.utf8-plain-text
TextPieces == {Http \o <<"a">>, <<" ">>, <<"b">>, <<NUL>>}
TextAnswers ==
    {Nil} \cup {Obj(Concat(ps)) : ps \in SeqsUpTo(TextPieces, MaxPieces)}

(***************************************************************************)
(* read_clipboard_content: the item and what each probe does to it         *)
(***************************************************************************)
\* variant of NewItem: the text fields start as empty strings
NewItemEmptyStrings ==
    [content_type |-> to_string("Unknown"),
     plain_text |-> Some(<<>>), rtf_data |-> Some(<<>>), html_data |-> Some(<<>>),
     image_data |-> None, image_width |-> None, image_height |-> None,
     image_format |-> None, file_paths |-> None, detected_urls |-> None]

NewItem ==
    [content_type |-> to_string("Unknown"),
     plain_text |-> None, rtf_data |-> None, html_data |-> None,
     image_data |-> None, image_width |-> None, image_height |-> None,
     image_format |-> None, file_paths |-> None, detected_urls |-> None]

NoObs ==
    [handle |-> FALSE, files |-> None, png |-> None, tiff |-> None,
     html |-> None, rtf |-> None, text |-> None]

has(type) == types # Nil /\ type \in types[1]

with_files(it, paths) ==
    [it EXCEPT !.file_paths = Some(paths),
               !.content_type = to_string("File")]

with_image(it, img) ==
    [it EXCEPT !.image_data = Some(img.data),
               !.image_format = Some(img.format),
               !.content_type = to_string("Image")]

with_html(it, html) == [it EXCEPT !.html_data = Some(html)]

with_rtf(it, rtf) ==
    [it EXCEPT !.rtf_data = Some(rtf),
               !.content_type = to_string("RichText")]

\* variant of with_urls: the URL is compared with the untrimmed text
with_urls_untrimmed(it, text) ==
    LET urls == detect_urls(text)
    IN  IF urls # <<>>
        THEN [it EXCEPT !.detected_urls = Some(urls),
                        !.content_type =
                            IF Len(urls) = 1 /\ text = urls[1]
                            THEN to_string("Link") ELSE @]
        ELSE it

\* variant of with_urls: the list is attached also when it is empty
with_urls_always_attached(it, text) ==
    LET urls == detect_urls(text)
    IN  [it EXCEPT !.detected_urls = Some(urls),
                   !.content_type =
                       IF Len(urls) = 1 /\ trim(text) = urls[1]
                       THEN to_string("Link") ELSE @]

with_urls(it, text) ==
    LET urls == detect_urls(text)
    IN  IF urls # <<>>
        THEN [it EXCEPT !.detected_urls = Some(urls),
                        !.content_type =
                            IF Len(urls) = 1 /\ trim(text) = urls[1]
                            THEN to_string("Link") ELSE @]
        ELSE it

\* variant of with_text: every item that is not a link is tagged text
with_text_overwriting(it, text) ==
    LET tagged == [with_urls(it, text) EXCEPT !.plain_text = Some(text)]
    IN  IF tagged.content_type # to_string("Link")
        THEN [tagged EXCEPT !.content_type = to_string("Text")]
        ELSE tagged

with_text(it, text) ==
    LET tagged == [with_urls(it, text) EXCEPT !.plain_text = Some(text)]
    IN  IF tagged.content_type = to_string("Unknown")
        THEN [tagged EXCEPT !.content_type = to_string("Text")]
        ELSE tagged

\* variant of tail_result: HTML alone is returned too
tail_result_html(it) ==
    IF IsSome(it.rtf_data) \/ IsSome(it.html_data) THEN Some(it) ELSE None

\* the end of the function, reached when no probe returned
tail_result(it) == IF IsSome(it.rtf_data) THEN Some(it) ELSE None

Return(r) == /\ result' = r
             /\ pc' = "done"

\* pasteboard handle, changeCount and the declared types
ReadBegin(TypesA) ==
    /\ pc = "idle"
    /\ \E pasteboard \in BOOLEAN, tys \in TypesA :
          IF ~pasteboard
          THEN /\ Return(None)
               /\ UNCHANGED <<types, item, obs, change_count, read_cc>>
          ELSE /\ change_count' = changeCount
               /\ read_cc' = changeCount
               /\ types' = tys
               /\ obs' = [NoObs EXCEPT !.handle = TRUE]
               /\ IF tys = Nil
                  THEN Return(None) /\ UNCHANGED item
                  ELSE /\ item' = NewItem
                       /\ pc' = "files"
                       /\ UNCHANGED result
    /\ UNCHANGED <<changeCount, countVars, testVars>>

\* variant of CheckFiles: the paths are attached and probing goes on
CheckFilesNoReturn(FileUrlA) ==
    /\ pc = "files"
    /\ IF has(file_url_type)
       THEN \E urls \in FileUrlA :
               LET paths == read_file_urls(urls)
               IN  /\ obs' = [obs EXCEPT !.files = paths]
                   /\ read_cc' = changeCount
                   /\ item' = IF IsSome(paths)
                               THEN [item EXCEPT !.file_paths = paths,
                                                 !.content_type = to_string("File")]
                               ELSE item
       ELSE UNCHANGED <<item, obs, read_cc>>
    /\ pc' = "images"
    /\ UNCHANGED <<changeCount, types, result, change_count, countVars, testVars>>

CheckFiles(FileUrlA) ==
    /\ pc = "files"
    /\ IF has(file_url_type)
       THEN \E urls \in FileUrlA :
               LET paths == read_file_urls(urls)
               IN  /\ obs' = [obs EXCEPT !.files = paths]
                   /\ read_cc' = changeCount
                   /\ IF IsSome(paths)
                      THEN /\ item' = with_files(item, paths[1])
                           /\ Return(Some(item'))
                      ELSE /\ pc' = "images"
                           /\ UNCHANGED <<item, result>>
       ELSE /\ pc' = "images"
            /\ UNCHANGED <<item, result, obs, read_cc>>
    /\ UNCHANGED <<changeCount, types, change_count, countVars, testVars>>

CheckImages(DataA) ==
    /\ pc = "images"
    /\ IF has(png_type) \/ has(tiff_type)
       THEN \E png_data \in DataA, tiff_data \in DataA :
               LET img == read_image_data(png_data, tiff_data)
               IN  /\ obs' = [obs EXCEPT
                               !.png = IF HasBytes(png_data) THEN png_data ELSE None,
                               !.tiff = IF HasBytes(tiff_data) THEN tiff_data ELSE None]
                   /\ read_cc' = changeCount
                   /\ IF IsSome(img)
                      THEN /\ item' = with_image(item, img[1])
                           /\ Return(Some(item'))
                      ELSE /\ pc' = "html"
                           /\ UNCHANGED <<item, result>>
       ELSE /\ pc' = "html"
            /\ UNCHANGED <<item, result, obs, read_cc>>
    /\ UNCHANGED <<changeCount, types, change_count, countVars, testVars>>

CheckHtml(MarkupA) ==
    /\ pc = "html"
    /\ IF has(html_type)
       THEN \E data \in MarkupA :
               LET html == read_string_for_type(data)
               IN  /\ obs' = [obs EXCEPT !.html = html]
                   /\ read_cc' = changeCount
                   /\ item' = IF IsSome(html) THEN with_html(item, html[1]) ELSE item
       ELSE UNCHANGED <<item, obs, read_cc>>
    /\ pc' = "rtf"
    /\ UNCHANGED <<changeCount, types, result, change_count, countVars, testVars>>

CheckRtf(MarkupA) ==
    /\ pc = "rtf"
    /\ IF has(rtf_type)
       THEN \E data \in MarkupA :
               LET rtf == read_string_for_type(data)
               IN  /\ obs' = [obs EXCEPT !.rtf = rtf]
                   /\ read_cc' = changeCount
                   /\ item' = IF IsSome(rtf) THEN with_rtf(item, rtf[1]) ELSE item
       ELSE UNCHANGED <<item, obs, read_cc>>
    /\ pc' = "text"
    /\ UNCHANGED <<changeCount, types, result, change_count, countVars, testVars>>

\* the plain-text probe and, when it does not return, the end of the function
CheckText(TextA) ==
    /\ pc = "text"
    /\ IF has(text_type)
       THEN \E data \in TextA :
               LET text == read_string_for_type(data)
               IN  /\ obs' = [obs EXCEPT !.text = text]
                   /\ read_cc' = changeCount
                   /\ IF IsSome(text)
                      THEN /\ item' = with_text(item, text[1])
                           /\ Return(Some(item'))
                      ELSE /\ Return(tail_result(item))
                           /\ UNCHANGED item
       ELSE /\ Return(tail_result(item))
            /\ UNCHANGED <<item, obs, read_cc>>
    /\ UNCHANGED <<changeCount, types, change_count, countVars, testVars>>

\* clipboard_read hands the result to its caller; the locals are gone
ReadReturn ==
    /\ pc = "done"
    /\ pc' = "idle"
    /\ types' = Nil
    /\ item' = NewItem
    /\ result' = None
    /\ obs' = NoObs
    /\ change_count' = 0
    /\ read_cc' = 0
    /\ UNCHANGED <<changeCount, countVars, testVars>>

(***************************************************************************)
(* get_clipboard_change_count                                              *)
(***************************************************************************)
\* last_count is an Option: None before the first call
NoCall == None

\* variant of change_count_result: the fallback of the other platforms
change_count_fallback(pasteboard) == 0

change_count_result(pasteboard) == IF ~pasteboard THEN 0 ELSE changeCount

get_clipboard_change_count ==
    /\ pc = "idle"
    /\ \E pasteboard \in BOOLEAN :
          /\ last_count' = Some(change_count_result(pasteboard))
          /\ last_handle' = pasteboard
    /\ prev_count' = last_count
    /\ prev_handle' = last_handle
    /\ between' = mutated
    /\ mutated' = FALSE
    /\ UNCHANGED <<changeCount, readVars, testVars>>

(***************************************************************************)
(* Another application writes the pasteboard                               *)
(***************************************************************************)
Mutate ==
    /\ changeCount < MaxChange
    /\ changeCount' = changeCount + 1
    /\ mutated' = TRUE
    /\ UNCHANGED <<readVars, last_count, last_handle, prev_count, prev_handle,
                   between, testVars>>

Init ==
    /\ changeCount = 0
    /\ pc = "idle"
    /\ types = Nil
    /\ item = NewItem
    /\ result = None
    /\ obs = NoObs
    /\ change_count = 0
    /\ read_cc = 0
    /\ last_count = NoCall
    /\ last_handle = FALSE
    /\ prev_count = NoCall
    /\ prev_handle = FALSE
    /\ between = FALSE
    /\ mutated = FALSE
    /\ input_text = <<>>
    /\ found_urls = None

\* one call of read_clipboard_content, the pasteboard answering from the
\* given sets
Reader(TypesA, FileUrlA, DataA, MarkupA, TextA) ==
    \/ ReadBegin(TypesA)
    \/ CheckFiles(FileUrlA)
    \/ CheckImages(DataA)
    \/ CheckHtml(MarkupA)
    \/ CheckRtf(MarkupA)
    \/ CheckText(TextA)
    \/ ReadReturn

(***************************************************************************)
(* Spec: calls of read_clipboard_content while other applications write    *)
(* the pasteboard                                                          *)
(***************************************************************************)
Next ==
    \/ Reader(TypesAnswers, FileUrlAnswers, DataAnswers, MarkupAnswers, TextAnswers)
    \/ Mutate

Spec == Init /\ [][Next]_vars

(***************************************************************************)
(* SpecCount: a caller that polls get_clipboard_change_count between its   *)
(* calls of read_clipboard_content.  The counter is what is observed, so   *)
(* each probe is answered with nil or with one object.                     *)
(***************************************************************************)
PollTypes == {Nil} \cup {Obj(S) : S \in SUBSET RecognizedTypes}
PollFileUrls == {Nil, Obj(<<Obj("/a")>>)}
PollData == {Nil, Obj(<<0>>)}
PollMarkup == {Nil, Obj(<<"m">>)}
PollText == {Nil, Obj(<<"b">>)}

NextCount ==
    \/ get_clipboard_change_count
    \/ Reader(PollTypes, PollFileUrls, PollData, PollMarkup, PollText)
    \/ Mutate

SpecCount == Init /\ [][NextCount]_vars

(***************************************************************************)
(* SpecUrls: detect_urls called on its own, as the unit tests call it      *)
(***************************************************************************)
UrlPieces ==
    {Http, Https, <<"h", "t", "t", "p", ":">>, <<"a">>, <<" ">>, <<"\t">>}
UrlTexts == {Concat(ps) : ps \in SeqsUpTo(UrlPieces, MaxUrlPieces)}

test_detect_urls ==
    /\ found_urls = None
    /\ found_urls' = Some(detect_urls(input_text))
    /\ UNCHANGED <<changeCount, readVars, countVars, input_text>>

InitUrls ==
    /\ changeCount = 0
    /\ pc = "idle"
    /\ types = Nil
    /\ item = NewItem
    /\ result = None
    /\ obs = NoObs
    /\ change_count = 0
    /\ read_cc = 0
    /\ last_count = NoCall
    /\ last_handle = FALSE
    /\ prev_count = NoCall
    /\ prev_handle = FALSE
    /\ between = FALSE
    /\ mutated = FALSE
    /\ input_text \in UrlTexts
    /\ found_urls = None

NextUrls == test_detect_urls

SpecUrls == InitUrls /\ [][NextUrls]_vars

(***************************************************************************)
(* Claims about read_clipboard_content (Spec)                              *)
(***************************************************************************)
Done == pc = "done"
Returned == Done /\ IsSome(result)
Tag == result[1].content_type
FileFired == IsSome(obs.files)
ImageFired == IsSome(obs.png) \/ IsSome(obs.tiff)
Declared(type) == has(type)

\* the plain text is one URL and nothing else but surrounding whitespace
WholeTextUrl(text) ==
    /\ Len(detect_urls(text)) = 1
    /\ trim(text) = detect_urls(text)[1]

\* C1 as stated: with both the file-reference type and the plain-text type
\* declared, the call returns an item tagged file, whatever the probes obtain.
C1_FileWheneverDeclared ==
    (Done /\ obs.handle /\ Declared(file_url_type) /\ Declared(text_type))
        => (IsSome(result) /\ Tag = "file")

\* C1 amended: with both types declared, the call returns an item tagged
\* file, holding the paths and no plain text, exactly when the file probe
\* obtained at least one path, whatever the text probe would obtain; when it
\* obtained none the item, if any, is not tagged file.
C1_FileWhenPathObtained ==
    (Done /\ obs.handle /\ Declared(file_url_type) /\ Declared(text_type))
        => /\ FileFired =>
                /\ IsSome(result)
                /\ Tag = "file"
                /\ result[1].file_paths = obs.files
                /\ result[1].plain_text = None
           /\ ~FileFired => ~(IsSome(result) /\ Tag = "file")

C1_Witness ==
    /\ Returned
    /\ Declared(file_url_type) /\ Declared(text_type)
    /\ FileFired
    /\ Tag = "file"

\* C2 as stated: the call returns None exactly when the handle is missing,
\* no recognized type is declared, or no payload at all was obtained (no
\* path, no image bytes, no HTML, no RTF, no plain text).
NothingObtained ==
    /\ obs.files = None /\ obs.png = None /\ obs.tiff = None
    /\ obs.html = None /\ obs.rtf = None /\ obs.text = None

NoRecognizedType == types = Nil \/ types[1] \cap RecognizedTypes = {}

C2_NoneIffNoPayload ==
    Done => (result = None <=>
                (~obs.handle \/ NoRecognizedType \/ NothingObtained))

\* C2 amended: the call returns None exactly when the handle is missing, no
\* recognized type is declared, or none of a file path, image bytes, RTF and
\* plain text was obtained; HTML alone does not make an item.
NothingDecidingObtained ==
    /\ obs.files = None /\ obs.png = None /\ obs.tiff = None
    /\ obs.rtf = None /\ obs.text = None

C2_NoneIffNoDecidingPayload ==
    Done => (result = None <=>
                (~obs.handle \/ NoRecognizedType \/ NothingDecidingObtained))

C2_Witness ==
    /\ Done
    /\ Declared(html_type)
    /\ obs.html = Some(<<"m">>)
    /\ item.html_data = Some(<<"m">>)
    /\ result = None

\* C3: a returned item is tagged link iff neither the file nor the image
\* branch returned, plain text was obtained, and it is one URL that equals
\* the trimmed text; then detected_urls is that one URL and plain_text the
\* untrimmed text, also when RTF had tagged the item rich_text.
C3_LinkIffWholeTextUrl ==
    Returned =>
        /\ Tag = "link" <=>
              /\ ~FileFired /\ ~ImageFired
              /\ IsSome(obs.text)
              /\ WholeTextUrl(obs.text[1])
        /\ Tag = "link" =>
              /\ result[1].detected_urls = Some(<<trim(obs.text[1])>>)
              /\ result[1].plain_text = obs.text

C3_Witness ==
    /\ Returned
    /\ Tag = "link"
    /\ IsSome(obs.rtf)
    /\ result[1].rtf_data = obs.rtf
    /\ obs.text[1] # trim(obs.text[1])

\* C4: when neither the file nor the image branch returned: plain text that
\* is not one whole-text URL gives an item tagged rich_text if RTF was
\* obtained (carrying rtf_data, plain_text, and html_data and detected_urls
\* as obtained) and tagged text if not; RTF without plain text gives an item
\* tagged rich_text.
C4_TextUnlessRtf ==
    (Done /\ obs.handle /\ types # Nil /\ ~FileFired /\ ~ImageFired) =>
        /\ (IsSome(obs.text) /\ ~WholeTextUrl(obs.text[1])) =>
              /\ IsSome(result)
              /\ Tag = (IF IsSome(obs.rtf) THEN "rich_text" ELSE "text")
              /\ result[1].rtf_data = obs.rtf
              /\ result[1].plain_text = obs.text
              /\ result[1].html_data = obs.html
              /\ result[1].detected_urls =
                    (IF detect_urls(obs.text[1]) = <<>> THEN None
                     ELSE Some(detect_urls(obs.text[1])))
        /\ (obs.text = None /\ IsSome(obs.rtf)) =>
              /\ IsSome(result)
              /\ Tag = "rich_text"
              /\ result[1].rtf_data = obs.rtf
              /\ result[1].html_data = obs.html

C4_Witness ==
    /\ Returned
    /\ IsSome(obs.rtf) /\ IsSome(obs.html) /\ IsSome(obs.text)
    /\ Len(detect_urls(obs.text[1])) = 2
    /\ Tag = "rich_text"
    /\ IsSome(result[1].plain_text)

\* C7 as stated: everything one call reads comes from one state of the
\* pasteboard: the pasteboard is not written between the reading of the
\* declared types and the last probe of a call that returns an item.
C7_OneSnapshot == Returned => read_cc = change_count

\* what the HTML, RTF and plain-text probes give when they alone decide
TextualItem(html, rtf, text) ==
    IF text = None /\ rtf = None THEN None
    ELSE Some([NewItem EXCEPT
            !.html_data = html,
            !.rtf_data = rtf,
            !.plain_text = text,
            !.detected_urls =
                IF text = None \/ detect_urls(text[1]) = <<>> THEN None
                ELSE Some(detect_urls(text[1])),
            !.content_type =
                IF text # None /\ WholeTextUrl(text[1]) THEN "link"
                ELSE IF rtf # None THEN "rich_text"
                ELSE "text"])

\* C8: when the file branch did not return and a PNG or TIFF type is
\* declared: PNG bytes give an image item of format png with those bytes,
\* whatever TIFF holds; else TIFF bytes give one of format tiff; else the
\* result is what the HTML, RTF and plain-text probes give, the same as
\* when no image type is declared.
C8_ImageSubPolicy ==
    (Done /\ obs.handle /\ types # Nil /\ ~FileFired) =>
        /\ IsSome(obs.png) =>
              /\ IsSome(result) /\ Tag = "image"
              /\ result[1].image_format = Some("png")
              /\ result[1].image_data = obs.png
        /\ (obs.png = None /\ IsSome(obs.tiff)) =>
              /\ IsSome(result) /\ Tag = "image"
              /\ result[1].image_format = Some("tiff")
              /\ result[1].image_data = obs.tiff
        /\ ~ImageFired => result = TextualItem(obs.html, obs.rtf, obs.text)

C8_Witness ==
    /\ Returned
    /\ Declared(png_type) /\ Declared(tiff_type)
    /\ IsSome(obs.png) /\ IsSome(obs.tiff) /\ obs.png # obs.tiff
    /\ result[1].image_format = Some("png")

\* C9: an item tagged file holds a non-empty file_paths and no other
\* payload; an item tagged image holds image_data and image_format and no
\* other payload; image_width and image_height are None in every item.
C9_EarlyReturnsLeaveRestAbsent ==
    Returned =>
        LET it == result[1] IN
        /\ it.image_width = None /\ it.image_height = None
        /\ Tag = "file" =>
              /\ IsSome(it.file_paths) /\ Len(it.file_paths[1]) > 0
              /\ it.plain_text = None /\ it.rtf_data = None
              /\ it.html_data = None /\ it.image_data = None
              /\ it.image_format = None /\ it.detected_urls = None
        /\ Tag = "image" =>
              /\ IsSome(it.image_data) /\ IsSome(it.image_format)
              /\ it.file_paths = None
              /\ it.plain_text = None /\ it.rtf_data = None
              /\ it.html_data = None /\ it.detected_urls = None

C9_Witness ==
    /\ Returned
    /\ Tag = "file"
    /\ RecognizedTypes \subseteq types[1]

\* C10: every returned item is tagged file, image, rich_text, text or link,
\* holds the payload of its tag, and holds detected_urls only as a
\* non-empty list next to plain_text.
C10_ItemInvariant ==
    Returned =>
        LET it == result[1] IN
        /\ Tag \in {"file", "image", "rich_text", "text", "link"}
        /\ Tag = "file" => IsSome(it.file_paths)
        /\ Tag = "image" => IsSome(it.image_data)
        /\ Tag = "rich_text" => IsSome(it.rtf_data)
        /\ Tag \in {"text", "link"} => IsSome(it.plain_text)
        /\ IsSome(it.detected_urls) =>
              /\ it.detected_urls[1] # <<>>
              /\ IsSome(it.plain_text)

C10_Witness ==
    /\ Returned
    /\ Tag = "text"
    /\ IsSome(result[1].plain_text)
    /\ result[1].plain_text[1] # <<>>
    /\ result[1].detected_urls = None

(***************************************************************************)
(* Claims about get_clipboard_change_count (SpecCount)                     *)
(***************************************************************************)
\* a step of read_clipboard_content
ReadStep == pc' # pc

\* C6 as stated: each call of get_clipboard_change_count returns at least
\* what the call before it returned, the same when the pasteboard was not
\* written in between and something else when it was; no step of
\* read_clipboard_content changes the counter.
C6_CounterTracksMutations ==
    [][/\ (get_clipboard_change_count /\ last_count # NoCall) =>
              /\ last_count'[1] >= last_count[1]
              /\ ~mutated => last_count' = last_count
              /\ mutated => last_count' # last_count
       /\ ReadStep => changeCount' = changeCount]_vars

\* C6 amended: the same, for two consecutive calls that both find the
\* pasteboard handle (a call that does not find it returns 0).
C6_CounterTracksMutationsWithHandle ==
    [][/\ (get_clipboard_change_count /\ last_count # NoCall
              /\ last_handle /\ last_handle') =>
              /\ last_count'[1] >= last_count[1]
              /\ ~mutated => last_count' = last_count
              /\ mutated => last_count' # last_count
       /\ (get_clipboard_change_count /\ ~last_handle') => last_count' = Some(0)
       /\ ReadStep => changeCount' = changeCount]_vars

C6_Witness ==
    /\ prev_count # NoCall /\ prev_handle
    /\ last_count # NoCall /\ last_handle
    /\ between
    /\ last_count[1] > prev_count[1]

(***************************************************************************)
(* Claims about detect_urls (SpecUrls)                                     *)
(***************************************************************************)
\* the runs of non-whitespace characters of s, by their first position
TokenStarts(s) ==
    {a \in 1..Len(s) : ~IsWhitespace(s[a]) /\ (a = 1 \/ IsWhitespace(s[a - 1]))}

TokenEnd(s, a) ==
    CHOOSE b \in a..Len(s) :
        /\ \A k \in a..b : ~IsWhitespace(s[k])
        /\ b = Len(s) \/ IsWhitespace(s[b + 1])

\* where, in the run that starts at a, a scheme is followed by a character
UrlStarts(s, a) ==
    {i \in a..TokenEnd(s, a) :
        \E scheme \in {Http, Https} :
            /\ starts_with(s, i, scheme)
            /\ i + Len(scheme) <= TokenEnd(s, a)}

Min(S) == CHOOSE m \in S : \A n \in S : m <= n

RECURSIVE UrlsOfTokens(_, _)
UrlsOfTokens(s, starts) ==
    IF starts = {} THEN <<>>
    ELSE LET a == Min(starts)
             here == IF UrlStarts(s, a) = {} THEN <<>>
                     ELSE <<SubSeq(s, Min(UrlStarts(s, a)), TokenEnd(s, a))>>
         IN  here \o UrlsOfTokens(s, starts \ {a})

\* C5: detect_urls returns, in order of occurrence and with repetitions,
\* one URL for each run of non-whitespace characters that holds http:// or
\* https:// followed by a character: the run from the first such scheme to
\* its end; hence none for a text without one.
C5_DetectUrls ==
    IsSome(found_urls) =>
        found_urls[1] = UrlsOfTokens(input_text, TokenStarts(input_text))

C5_Witness ==
    /\ IsSome(found_urls)
    /\ found_urls[1] = <<Https \o <<"a">>, Http \o <<"a">>>>
    /\ input_text = Https \o <<"a", " ">> \o Http \o <<"a">>

====
